---- MODULE Spec2Model ----
(***************************************************************************)
(* The ARP resolver of the protocol stack (arp.c): the cache arp_table,    *)
(* the sweep timestamp, the cache mutex, the per-entry condition           *)
(* variables, the receive handler arp_rx (one receive thread per device)   *)
(* and the resolver arp_resolve (caller threads).                          *)
(*                                                                         *)
(* Addresses are small integers: a link address n stands for               *)
(* 02:00:00:00:00:n, 0 for 00:00:00:00:00:00 and 255 for ff:..:ff; a       *)
(* protocol address n stands for 10.0.0.n.  Pointers are integers, 0 is    *)
(* NULL.  16-bit header fields of a message hold the value a little-endian *)
(* host reads from the wire, so ntoh16/hton16 swap the two octets.         *)
(***************************************************************************)
EXTENDS Integers, Sequences, FiniteSets, TLC

(* ---------------------------- bounds ----------------------------------- *)
\* slots of arp_table in the model (the source has 4096)
ARP_TABLE_SIZE == 2
\* caller threads inside arp_resolve
NumCallers == 2
\* how many times the clock advances
MaxTicks == 1
\* how often the clock advances in the receive-only specification
MaxRxTicks == 3

(* ------------------------- program constants --------------------------- *)
ARP_HRD_ETHERNET == 1
ARP_OP_REQUEST == 1
ARP_OP_REPLY == 2
ARP_TABLE_TIMEOUT_SEC == 300
\* "now - timestamp > 10" in arp_rx
SWEEP_INTERVAL_SEC == 10
\* "timeout.tv_sec = now.tv_sec + 1" in arp_resolve
RESOLVE_TIMEOUT_SEC == 1
\* sizeof(struct arp_ethernet), packed
ARP_ETHERNET_SIZE == 28
\* return values of pthread_cond_timedwait
ETIMEDOUT == 110

\* ethernet.h, ip.h and arp.h
ETHERNET_ADDR_LEN == 6
IP_ADDR_LEN == 4
ETHERNET_TYPE_IP == 2048
ETHERNET_TYPE_ARP == 2054
ETHERNET_ADDR_ANY == 0
ETHERNET_ADDR_BROADCAST == 255
NETIF_FAMILY_IPV4 == 2
ARP_RESOLVE_ERROR == 0 - 1
ARP_RESOLVE_QUERY == 0
ARP_RESOLVE_FOUND == 1

NULL == 0

(* ------------------------- byte order (util.h) ------------------------- *)
hton16(h) == (h % 256) * 256 + (h \div 256)
ntoh16(n) == (n % 256) * 256 + (n \div 256)

(* --------------------------- the environment --------------------------- *)
Slots == 0 .. (ARP_TABLE_SIZE - 1)
\* arp_table_select / arp_table_freespace returning NULL
NoEntry == 0 - 1
Callers == 1 .. NumCallers
\* devices; the receive thread of a device carries the device's number
Devs == {1, 2}
\* link address of each device (struct netdev.addr)
DevAddr(d) == 100 + d
\* the one IPv4 interface, attached to device 1, and its unicast address
Netif1 == 1
LocalPA == 9
NetifDev(n) == 1
NetifUnicast(n) == LocalPA
\* netdev_get_netif(dev, NETIF_FAMILY_IPV4): device 2 has no IPv4 interface
netdev_get_netif(d, family) ==
    IF d = 1 /\ family = NETIF_FAMILY_IPV4 THEN Netif1 ELSE NULL

\* remote protocol addresses; the host with protocol address p announces
\* the link address 10 * p + 1, so OwnerOf tells for which protocol address
\* a link address was learned
PAs == {1, 2}
HAsOf(p) == {10 * p + 1}
OwnerOf(ha) == ha \div 10
OtherPA == 7
Payloads == {1}
PayloadLen(p) == IF p = NULL THEN 0 ELSE 1 + p
\* the clock advances past a resolver's deadline or past the entry lifetime
TickSteps == {RESOLVE_TIMEOUT_SEC, ARP_TABLE_TIMEOUT_SEC + 1}
StartTime == 1000

(* ------------------------------ messages ------------------------------- *)
\* struct arp_ethernet as received or sent, with the length it came in
Message(plen, hrd, pro, hln, pln, op, sha, spa, tha, tpa) ==
    [plen |-> plen, hrd |-> hrd, pro |-> pro, hln |-> hln, pln |-> pln,
     op |-> op, sha |-> sha, spa |-> spa, tha |-> tha, tpa |-> tpa]

NoMessage == Message(0, 0, 0, 0, 0, 0, 0, 0, 0, 0)

WellFormed(plen, op, sha, spa, tpa) ==
    Message(plen, hton16(ARP_HRD_ETHERNET), hton16(ETHERNET_TYPE_IP),
            ETHERNET_ADDR_LEN, IP_ADDR_LEN, hton16(op), sha, spa, 0, tpa)

\* a reply that passes every check of arp_rx and announces the all-zero
\* link address
ZeroShaReply ==
    WellFormed(ARP_ETHERNET_SIZE, ARP_OP_REPLY, ETHERNET_ADDR_ANY, 1, LocalPA)

ValidFrames ==
    UNION { { WellFormed(ARP_ETHERNET_SIZE, op, sha, spa, tpa) :
                op \in {ARP_OP_REQUEST, ARP_OP_REPLY}, sha \in HAsOf(spa),
                tpa \in {LocalPA, OtherPA} } : spa \in PAs }
    \cup { WellFormed(ARP_ETHERNET_SIZE + 1, ARP_OP_REPLY, 11, 1, OtherPA) }
    \cup { ZeroShaReply }

\* frames that break exactly one of the checks of arp_rx
MalformedFrames ==
    LET m == WellFormed(ARP_ETHERNET_SIZE, ARP_OP_REQUEST, 11, 1, LocalPA) IN
    { [m EXCEPT !.plen = ARP_ETHERNET_SIZE - 1],
      [m EXCEPT !.hrd = ARP_HRD_ETHERNET],
      [m EXCEPT !.pro = hton16(ETHERNET_TYPE_ARP)],
      [m EXCEPT !.hln = IP_ADDR_LEN],
      [m EXCEPT !.pln = ETHERNET_ADDR_LEN] }

\* the frames each device's receive thread is handed: everything on device
\* 1; on device 2, which has no IPv4 interface, the valid frames whose
\* target is the address of device 1's interface
FramesOn(d) ==
    IF d = 1 THEN ValidFrames \cup MalformedFrames
    ELSE { m \in ValidFrames : m.tpa = LocalPA /\ m.plen = ARP_ETHERNET_SIZE }

\* a variant without the check of pln
arp_rx_valid_skips_pln(m) ==
    /\ ~(m.plen < ARP_ETHERNET_SIZE)
    /\ ~(ntoh16(m.hrd) # ARP_HRD_ETHERNET)
    /\ ~(ntoh16(m.pro) # ETHERNET_TYPE_IP)
    /\ ~(m.hln # ETHERNET_ADDR_LEN)

\* the checks at the head of arp_rx
arp_rx_valid(m) ==
    /\ ~(m.plen < ARP_ETHERNET_SIZE)
    /\ ~(ntoh16(m.hrd) # ARP_HRD_ETHERNET)
    /\ ~(ntoh16(m.pro) # ETHERNET_TYPE_IP)
    /\ ~(m.hln # ETHERNET_ADDR_LEN)
    /\ ~(m.pln # IP_ADDR_LEN)

\* one call of dev->ops->tx: device, EtherType, destination and the ARP
\* message or the payload carried
TxArp(dev, dst, m) ==
    [dev |-> dev, type |-> ETHERNET_TYPE_ARP, dst |-> dst, arp |-> m,
     data |-> NULL, len |-> ARP_ETHERNET_SIZE]
TxIp(dev, dst, data, len) ==
    [dev |-> dev, type |-> ETHERNET_TYPE_IP, dst |-> dst, arp |-> NoMessage,
     data |-> data, len |-> len]

(* ---------------------------- cache entries ---------------------------- *)
FreeEntry ==
    [used |-> FALSE, pa |-> 0, ha |-> ETHERNET_ADDR_ANY, timestamp |-> 0,
     data |-> NULL, len |-> 0, netif |-> NULL]

\* a variant that hands out slot 0 again when every slot is used
arp_table_freespace_reuses(tbl) ==
    IF \E i \in Slots : ~tbl[i].used
    THEN CHOOSE i \in Slots :
            ~tbl[i].used /\ \A j \in Slots : j < i => tbl[j].used
    ELSE 0

arp_table_freespace(tbl) ==
    IF \E i \in Slots : ~tbl[i].used
    THEN CHOOSE i \in Slots :
            ~tbl[i].used /\ \A j \in Slots : j < i => tbl[j].used
    ELSE NoEntry

arp_table_select(tbl, pa) ==
    IF \E i \in Slots : tbl[i].used /\ tbl[i].pa = pa
    THEN CHOOSE i \in Slots :
            /\ tbl[i].used /\ tbl[i].pa = pa
            /\ \A j \in Slots : j < i => ~(tbl[j].used /\ tbl[j].pa = pa)
    ELSE NoEntry

\* a variant that leaves the netif in the cleared slot
arp_entry_clear_keeps_netif(e) ==
    [used |-> FALSE, pa |-> 0, ha |-> ETHERNET_ADDR_ANY, timestamp |-> 0,
     data |-> NULL, len |-> IF e.data # NULL THEN 0 ELSE e.len,
     netif |-> e.netif]

\* a variant that leaves the link address in the cleared slot
arp_entry_clear_keeps_ha(e) ==
    [used |-> FALSE, pa |-> 0, ha |-> e.ha, timestamp |-> 0,
     data |-> NULL, len |-> IF e.data # NULL THEN 0 ELSE e.len,
     netif |-> NULL]

arp_entry_clear(e) ==
    [used |-> FALSE, pa |-> 0, ha |-> ETHERNET_ADDR_ANY, timestamp |-> 0,
     data |-> NULL, len |-> IF e.data # NULL THEN 0 ELSE e.len,
     netif |-> NULL]

\* arp_table_insert: rc, the table afterwards, the slots whose condition
\* variable is broadcast
arp_table_insert(tbl, pa, ha, now) ==
    LET e == arp_table_freespace(tbl) IN
    IF e = NoEntry
    THEN [rc |-> 0 - 1, tbl |-> tbl, bcast |-> {}]
    ELSE [rc |-> 0,
          tbl |-> [tbl EXCEPT ![e].used = TRUE, ![e].pa = pa, ![e].ha = ha,
                              ![e].timestamp = now],
          bcast |-> {e}]

\* arp_table_update: rc, the table afterwards, the frames handed to tx, the
\* slots whose condition variable is broadcast
arp_table_update(tbl, dev, pa, ha, now) ==
    LET e == arp_table_select(tbl, pa) IN
    IF e = NoEntry
    THEN [rc |-> 0 - 1, tbl |-> tbl, sent |-> <<>>, bcast |-> {}]
    ELSE LET t1 == [tbl EXCEPT ![e].ha = ha, ![e].timestamp = now] IN
         IF t1[e].data # NULL
         THEN LET d == IF NetifDev(t1[e].netif) # dev
                       THEN NetifDev(t1[e].netif) ELSE dev IN
              [rc |-> 0,
               tbl |-> [t1 EXCEPT ![e].data = NULL, ![e].len = 0],
               sent |-> << TxIp(d, t1[e].ha, t1[e].data, t1[e].len) >>,
               bcast |-> {e}]
         ELSE [rc |-> 0, tbl |-> t1, sent |-> <<>>, bcast |-> {e}]

\* a variant that stops after the first entry it clears
arp_table_patrol_first_only(tbl, ts) ==
    LET expired == { i \in Slots :
                       tbl[i].used
                       /\ ts - tbl[i].timestamp > ARP_TABLE_TIMEOUT_SEC }
        first == { i \in expired : \A j \in expired : i <= j }
    IN [tbl |-> [i \in Slots |->
                   IF i \in first THEN arp_entry_clear(tbl[i]) ELSE tbl[i]],
        bcast |-> first]

\* arp_table_patrol, run with the sweep timestamp already set to now
arp_table_patrol(tbl, ts) ==
    LET expired == { i \in Slots :
                       tbl[i].used
                       /\ ts - tbl[i].timestamp > ARP_TABLE_TIMEOUT_SEC } IN
    [tbl |-> [i \in Slots |->
                IF i \in expired THEN arp_entry_clear(tbl[i]) ELSE tbl[i]],
     bcast |-> expired]

arp_request(netif, tpa) ==
    Message(ARP_ETHERNET_SIZE, hton16(ARP_HRD_ETHERNET),
            hton16(ETHERNET_TYPE_IP), ETHERNET_ADDR_LEN, IP_ADDR_LEN,
            hton16(ARP_OP_REQUEST), DevAddr(NetifDev(netif)),
            NetifUnicast(netif), 0, tpa)

\* arp_send_request: the frame handed to tx
arp_send_request(netif, tpa) ==
    TxArp(NetifDev(netif), ETHERNET_ADDR_BROADCAST, arp_request(netif, tpa))

\* a variant that broadcasts the reply
arp_send_reply_broadcast(netif, tha, tpa, dst) ==
    TxArp(NetifDev(netif), ETHERNET_ADDR_BROADCAST,
          Message(ARP_ETHERNET_SIZE, hton16(ARP_HRD_ETHERNET),
                  hton16(ETHERNET_TYPE_IP), ETHERNET_ADDR_LEN, IP_ADDR_LEN,
                  hton16(ARP_OP_REPLY), DevAddr(NetifDev(netif)),
                  NetifUnicast(netif), tha, tpa))

\* arp_send_reply: the frame handed to tx
arp_send_reply(netif, tha, tpa, dst) ==
    TxArp(NetifDev(netif), dst,
          Message(ARP_ETHERNET_SIZE, hton16(ARP_HRD_ETHERNET),
                  hton16(ETHERNET_TYPE_IP), ETHERNET_ADDR_LEN, IP_ADDR_LEN,
                  hton16(ARP_OP_REPLY), DevAddr(NetifDev(netif)),
                  NetifUnicast(netif), tha, tpa))

(* ------------------------------- state --------------------------------- *)
VARIABLES
    arp_table,   \* the cache
    timestamp,   \* time of the last sweep
    clock,       \* what time() and gettimeofday() return, in seconds
    ticks,       \* how often the clock advanced
    caller,      \* per caller thread: its call of arp_resolve
    rx,          \* per device: its receive thread's call of arp_rx
    sweeps       \* history: the times at which arp_table_patrol ran

vars == <<arp_table, timestamp, clock, ticks, caller, rx, sweeps>>

IdleCaller ==
    [pc |-> "idle", pa |-> 0, data |-> NULL, entry |-> NoEntry,
     deadline |-> 0, ret |-> 0, result |-> 0, ha |-> 0, waited |-> FALSE,
     txfail |-> FALSE, sent |-> <<>>]

IdleRx ==
    [pc |-> "idle", msg |-> NoMessage, merge |-> 0, locks |-> 0,
     sent |-> <<>>]

\* arp_init
Init ==
    /\ arp_table = [i \in Slots |-> FreeEntry]
    /\ timestamp = StartTime
    /\ clock = StartTime
    /\ ticks = 0
    /\ caller = [c \in Callers |-> IdleCaller]
    /\ rx = [d \in Devs |-> IdleRx]
    /\ sweeps = <<>>

\* a variant that wakes one waiter of each slot in s (pthread_cond_signal)
Broadcast_wakes_one(cs, s) ==
    [c \in Callers |->
        IF /\ cs[c].pc = "waiting" /\ cs[c].entry \in s
           /\ \A b \in Callers :
                 cs[b].pc = "waiting" /\ cs[b].entry = cs[c].entry => c <= b
        THEN [cs[c] EXCEPT !.pc = "woken", !.ret = 0, !.deadline = 0]
        ELSE cs[c]]

\* pthread_cond_broadcast on the condition variables of the slots in s
Broadcast(cs, s) ==
    [c \in Callers |->
        IF cs[c].pc = "waiting" /\ cs[c].entry \in s
        THEN [cs[c] EXCEPT !.pc = "woken", !.ret = 0, !.deadline = 0]
        ELSE cs[c]]

\* A return is a step of the returning thread alone: it touches nothing the
\* other threads read.  The steps below wait for a pending return, so a
\* call's outcome is looked at in the state its last step leaves.
NoReturnPending ==
    /\ \A c \in Callers : caller[c].pc # "done"
    /\ \A d \in Devs : rx[d].pc # "done"

(* ------------------------------ the clock ------------------------------ *)
Tick ==
    /\ NoReturnPending
    /\ ticks < MaxTicks
    /\ \E d \in TickSteps : clock' = clock + d
    /\ ticks' = ticks + 1
    /\ UNCHANGED <<arp_table, timestamp, caller, rx, sweeps>>

(* ------------------------------- arp_rx -------------------------------- *)
\* what arp_rx does once the message is merged or inserted: the reply to a
\* request; called only when the target is this machine
arp_rx_reply(netif, m) ==
    IF ntoh16(m.op) = ARP_OP_REQUEST
    THEN << arp_send_reply(netif, m.sha, m.spa, m.sha) >>
    ELSE <<>>

\* a variant that does not compare the target address
arp_rx_for_us_any_target(d, m) ==
    netdev_get_netif(d, NETIF_FAMILY_IPV4) # NULL

\* "netif && ((struct netif_ip *)netif)->unicast == message->tpa"
arp_rx_for_us(d, m) ==
    LET netif == netdev_get_netif(d, NETIF_FAMILY_IPV4) IN
    netif # NULL /\ NetifUnicast(netif) = m.tpa

\* a variant whose sweep runs already when exactly the interval has passed
arp_rx_locked_at_interval(tbl, ts, d, m, now) ==
    LET due == now - ts >= SWEEP_INTERVAL_SEC
        ts1 == IF due THEN now ELSE ts
        p == IF due THEN arp_table_patrol(tbl, ts1)
             ELSE [tbl |-> tbl, bcast |-> {}]
        u == arp_table_update(p.tbl, d, m.spa, m.sha, now)
    IN [tbl |-> u.tbl, ts |-> ts1, swept |-> due,
        merge |-> IF u.rc = 0 THEN 1 ELSE 0,
        sent |-> u.sent, bcast |-> p.bcast \cup u.bcast]

\* the first critical section of arp_rx: the sweep when it is due, then the
\* update.  ts is the sweep timestamp afterwards.
arp_rx_locked(tbl, ts, d, m, now) ==
    LET due == now - ts > SWEEP_INTERVAL_SEC
        ts1 == IF due THEN now ELSE ts
        p == IF due THEN arp_table_patrol(tbl, ts1)
             ELSE [tbl |-> tbl, bcast |-> {}]
        u == arp_table_update(p.tbl, d, m.spa, m.sha, now)
    IN [tbl |-> u.tbl, ts |-> ts1, swept |-> due,
        merge |-> IF u.rc = 0 THEN 1 ELSE 0,
        sent |-> u.sent, bcast |-> p.bcast \cup u.bcast]

\* a malformed frame is handed to arp_rx on device d: it returns at once
RxDrop(d) ==
    /\ NoReturnPending
    /\ rx[d].pc = "idle"
    /\ \E m \in FramesOn(d) :
         /\ ~arp_rx_valid(m)
         /\ rx' = [rx EXCEPT ![d].msg = m, ![d].pc = "done"]
    /\ UNCHANGED <<arp_table, timestamp, clock, ticks, caller, sweeps>>

\* a valid frame is handed to arp_rx on device d: lock, sweep, update,
\* unlock; then, with the mutex released, the reply when the message was
\* merged and asks for one
RxUpdate(d) ==
    /\ NoReturnPending
    /\ rx[d].pc = "idle"
    /\ \E m \in FramesOn(d) :
         /\ arp_rx_valid(m)
         /\ LET r == arp_rx_locked(arp_table, timestamp, d, m, clock)
                netif == netdev_get_netif(d, NETIF_FAMILY_IPV4)
            IN /\ arp_table' = r.tbl
               /\ timestamp' = r.ts
               /\ sweeps' = IF r.swept THEN Append(sweeps, clock) ELSE sweeps
               /\ caller' = Broadcast(caller, r.bcast)
               /\ rx' = [rx EXCEPT
                    ![d].msg = m,
                    ![d].merge = r.merge,
                    ![d].locks = 1,
                    ![d].pc = IF arp_rx_for_us(d, m) /\ r.merge = 0
                              THEN "insert" ELSE "done",
                    ![d].sent = IF arp_rx_for_us(d, m) /\ r.merge # 0
                                THEN r.sent \o arp_rx_reply(netif, m)
                                ELSE r.sent]
    /\ UNCHANGED <<clock, ticks>>

\* the message is for this machine and was not merged: lock, insert,
\* unlock, reply
RxInsert(d) ==
    /\ NoReturnPending
    /\ rx[d].pc = "insert"
    /\ LET m == rx[d].msg
           r == arp_table_insert(arp_table, m.spa, m.sha, clock)
           netif == netdev_get_netif(d, NETIF_FAMILY_IPV4)
       IN /\ arp_table' = r.tbl
          /\ caller' = Broadcast(caller, r.bcast)
          /\ rx' = [rx EXCEPT
               ![d].pc = "done",
               ![d].locks = 2,
               ![d].sent = @ \o arp_rx_reply(netif, m)]
    /\ UNCHANGED <<timestamp, clock, ticks, sweeps>>

\* arp_rx returns
RxReturn(d) ==
    /\ rx[d].pc = "done"
    /\ rx' = [rx EXCEPT ![d] = IdleRx]
    /\ UNCHANGED <<arp_table, timestamp, clock, ticks, caller, sweeps>>

(* ----------------------------- arp_resolve ----------------------------- *)
\* a variant whose wait path stores the caller's payload in the entry
arp_resolve_locked_attaching(tbl, netif, pa, data, len, now, mallocok) ==
    LET e == arp_table_select(tbl, pa)
        f == arp_table_freespace(tbl)
        none == [wait |-> FALSE, result |-> ARP_RESOLVE_ERROR, tbl |-> tbl,
                 entry |-> NoEntry, ha |-> 0, sent |-> <<>>]
    IN
    IF e # NoEntry
    THEN IF tbl[e].ha = ETHERNET_ADDR_ANY
         THEN [none EXCEPT !.wait = TRUE, !.entry = e,
                           !.tbl = IF data # NULL
                                   THEN [tbl EXCEPT ![e].data = data,
                                                    ![e].len = len]
                                   ELSE tbl,
                           !.sent = << arp_send_request(netif, pa) >>]
         ELSE [none EXCEPT !.result = ARP_RESOLVE_FOUND, !.entry = e,
                           !.ha = tbl[e].ha]
    ELSE IF f = NoEntry
    THEN none
    ELSE IF data # NULL /\ ~mallocok
    THEN [none EXCEPT !.tbl = [tbl EXCEPT ![f].data = NULL]]
    ELSE LET t1 == IF data # NULL
                   THEN [tbl EXCEPT ![f].data = data, ![f].len = len]
                   ELSE tbl
         IN [none EXCEPT
               !.result = ARP_RESOLVE_QUERY,
               !.entry = f,
               !.tbl = [t1 EXCEPT ![f].used = TRUE, ![f].pa = pa,
                                  ![f].timestamp = now, ![f].netif = netif],
               !.sent = << arp_send_request(netif, pa) >>]

\* arp_resolve from the lock to the wait or the return.  wait = TRUE: the
\* caller is about to block in pthread_cond_timedwait on slot entry.
arp_resolve_locked(tbl, netif, pa, data, len, now, mallocok) ==
    LET e == arp_table_select(tbl, pa)
        f == arp_table_freespace(tbl)
        none == [wait |-> FALSE, result |-> ARP_RESOLVE_ERROR, tbl |-> tbl,
                 entry |-> NoEntry, ha |-> 0, sent |-> <<>>]
    IN
    IF e # NoEntry
    THEN IF tbl[e].ha = ETHERNET_ADDR_ANY
         THEN [none EXCEPT !.wait = TRUE, !.entry = e,
                           !.sent = << arp_send_request(netif, pa) >>]
         ELSE [none EXCEPT !.result = ARP_RESOLVE_FOUND, !.entry = e,
                           !.ha = tbl[e].ha]
    ELSE IF f = NoEntry
    THEN none
    ELSE IF data # NULL /\ ~mallocok
    THEN [none EXCEPT !.tbl = [tbl EXCEPT ![f].data = NULL]]
    ELSE LET t1 == IF data # NULL
                   THEN [tbl EXCEPT ![f].data = data, ![f].len = len]
                   ELSE tbl
         IN [none EXCEPT
               !.result = ARP_RESOLVE_QUERY,
               !.entry = f,
               !.tbl = [t1 EXCEPT ![f].used = TRUE, ![f].pa = pa,
                                  ![f].timestamp = now, ![f].netif = netif],
               !.sent = << arp_send_request(netif, pa) >>]

\* arp_resolve after pthread_cond_timedwait returned ret on slot e
arp_resolve_woken(tbl, e, ret) ==
    IF ~tbl[e].used \/ ret = ETIMEDOUT
    THEN [result |-> ARP_RESOLVE_ERROR, ha |-> 0,
          tbl |-> IF tbl[e].used
                  THEN [tbl EXCEPT ![e] = arp_entry_clear(tbl[e])]
                  ELSE tbl]
    ELSE [result |-> ARP_RESOLVE_FOUND, ha |-> tbl[e].ha, tbl |-> tbl]

\* a caller thread runs arp_resolve up to its return or to the wait: lock,
\* lookup, then FOUND, the request and the wait, or the new entry
Resolve(c) ==
    /\ NoReturnPending
    /\ caller[c].pc = "idle"
    /\ \E pa \in PAs, data \in {NULL} \cup Payloads,
          mallocok \in BOOLEAN, txok \in BOOLEAN :
         LET r == arp_resolve_locked(arp_table, Netif1, pa, data,
                                     PayloadLen(data), clock, mallocok)
         IN /\ (data = NULL => mallocok)
            /\ (r.sent = <<>> \/ r.wait => txok)
            /\ arp_table' = r.tbl
            /\ caller' = [caller EXCEPT
                 ![c].pc = IF r.wait THEN "waiting" ELSE "done",
                 ![c].pa = pa,
                 ![c].data = IF r.wait THEN NULL ELSE data,
                 ![c].entry = r.entry,
                 ![c].deadline =
                     IF r.wait THEN clock + RESOLVE_TIMEOUT_SEC ELSE 0,
                 ![c].waited = r.wait,
                 ![c].result = r.result,
                 ![c].ha = r.ha,
                 ![c].txfail = ~txok,
                 ![c].sent = r.sent]
    /\ UNCHANGED <<timestamp, clock, ticks, rx, sweeps>>

\* a variant for a wait without a deadline (pthread_cond_wait): it never
\* returns ETIMEDOUT
Timeout_no_deadline(c) ==
    /\ FALSE
    /\ UNCHANGED vars

\* pthread_cond_timedwait returns ETIMEDOUT: the deadline has passed
Timeout(c) ==
    /\ NoReturnPending
    /\ caller[c].pc = "waiting"
    /\ clock >= caller[c].deadline
    /\ caller' = [caller EXCEPT ![c].pc = "woken", ![c].ret = ETIMEDOUT,
                                ![c].deadline = 0]
    /\ UNCHANGED <<arp_table, timestamp, clock, ticks, rx, sweeps>>

\* pthread_cond_timedwait returns 0 though nobody signalled
SpuriousWakeup(c) ==
    /\ NoReturnPending
    /\ caller[c].pc = "waiting"
    /\ caller' = [caller EXCEPT ![c].pc = "woken", ![c].ret = 0,
                                ![c].deadline = 0]
    /\ UNCHANGED <<arp_table, timestamp, clock, ticks, rx, sweeps>>

\* pthread_cond_timedwait re-acquires the mutex and returns; the test after
\* the wait, then ERROR or FOUND
Wake(c) ==
    /\ NoReturnPending
    /\ caller[c].pc = "woken"
    /\ LET me == caller[c]
           r == arp_resolve_woken(arp_table, me.entry, me.ret)
       IN /\ arp_table' = r.tbl
          /\ caller' = [caller EXCEPT ![c].pc = "done",
                                      ![c].result = r.result,
                                      ![c].ha = r.ha]
    /\ UNCHANGED <<timestamp, clock, ticks, rx, sweeps>>

\* arp_resolve returns
Return(c) ==
    /\ caller[c].pc = "done"
    /\ caller' = [caller EXCEPT ![c] = IdleCaller]
    /\ UNCHANGED <<arp_table, timestamp, clock, ticks, rx, sweeps>>

(* --------------------------- specification ----------------------------- *)
Next ==
    \/ Tick
    \/ \E d \in Devs : RxDrop(d)
    \/ \E d \in Devs : RxUpdate(d)
    \/ \E d \in Devs : RxInsert(d)
    \/ \E d \in Devs : RxReturn(d)
    \/ \E c \in Callers : Resolve(c)
    \/ \E c \in Callers : Timeout(c)
    \/ \E c \in Callers : SpuriousWakeup(c)
    \/ \E c \in Callers : Wake(c)
    \/ \E c \in Callers : Return(c)

Spec == Init /\ [][Next]_vars

\* The receive threads alone, with a clock that advances more often and by
\* amounts around the sweep interval and the entry lifetime.
TickStepsRx ==
    {RESOLVE_TIMEOUT_SEC, SWEEP_INTERVAL_SEC, SWEEP_INTERVAL_SEC + 1,
     ARP_TABLE_TIMEOUT_SEC}

TickRx ==
    /\ NoReturnPending
    /\ ticks < MaxRxTicks
    /\ \E d \in TickStepsRx : clock' = clock + d
    /\ ticks' = ticks + 1
    /\ UNCHANGED <<arp_table, timestamp, caller, rx, sweeps>>

NextRx ==
    \/ TickRx
    \/ \E d \in Devs : RxDrop(d)
    \/ \E d \in Devs : RxUpdate(d)
    \/ \E d \in Devs : RxInsert(d)
    \/ \E d \in Devs : RxReturn(d)

SpecRx == Init /\ [][NextRx]_vars

\* The program under fair scheduling, for the claims about termination.
\* Time always advances; a call of arp_resolve starts only while the clock
\* of the model can still advance, so that its deadline lies within the time
\* modelled; a thread that can take a step, and whoever waits for the mutex,
\* eventually runs.  A spurious wake-up may happen and need not.  Frames
\* arrive on the device that has the IPv4 interface.
ResolveLive(c) == ticks < MaxTicks /\ Resolve(c)
LiveDevs == {NetifDev(Netif1)}

\* the clock advances past every deadline and every entry's lifetime
TickLive ==
    /\ NoReturnPending
    /\ ticks < MaxTicks
    /\ clock' = clock + ARP_TABLE_TIMEOUT_SEC + 1
    /\ ticks' = ticks + 1
    /\ UNCHANGED <<arp_table, timestamp, caller, rx, sweeps>>

NextLive ==
    \/ TickLive
    \/ \E d \in LiveDevs : RxDrop(d)
    \/ \E d \in LiveDevs : RxUpdate(d)
    \/ \E d \in LiveDevs : RxInsert(d)
    \/ \E d \in LiveDevs : RxReturn(d)
    \/ \E c \in Callers : ResolveLive(c)
    \/ \E c \in Callers : Timeout(c)
    \/ \E c \in Callers : SpuriousWakeup(c)
    \/ \E c \in Callers : Wake(c)
    \/ \E c \in Callers : Return(c)

Fairness ==
    /\ SF_vars(TickLive)
    /\ \A c \in Callers :
          /\ SF_vars(Timeout(c))
          /\ SF_vars(Wake(c))
          /\ WF_vars(Return(c))
    /\ \A d \in LiveDevs :
          /\ SF_vars(RxInsert(d))
          /\ WF_vars(RxReturn(d))

SpecLive == Init /\ [][NextLive]_vars /\ Fairness

(* ------------------------- helpers of the claims ----------------------- *)
UsedFor(tbl, pa) == { i \in Slots : tbl[i].used /\ tbl[i].pa = pa }
IsArp(f) == f.type = ETHERNET_TYPE_ARP
IsIp(f) == f.type = ETHERNET_TYPE_IP
\* caller c's call of arp_resolve returned in this state
Returned(c) == caller[c].pc = "done"
\* the sweep would run in a call of arp_rx now, and would clear slot i
SweepDue == clock - timestamp > SWEEP_INTERVAL_SEC
Expiring(i) ==
    /\ SweepDue
    /\ arp_table[i].used
    /\ clock - arp_table[i].timestamp > ARP_TABLE_TIMEOUT_SEC

(* -------------------------------- C1 ----------------------------------- *)
\* C1: in every reachable state, whatever the interleaving of arp_resolve
\* and arp_rx, at most one used slot of arp_table holds a given protocol
\* address.
C1_Uniqueness ==
    \A pa \in PAs : Cardinality(UsedFor(arp_table, pa)) <= 1

(* -------------------------------- C2 ----------------------------------- *)
\* C2: whenever arp_resolve returns ARP_RESOLVE_FOUND, the link address it
\* wrote to the caller's ha is not all-zero and is the one announced for the
\* requested protocol address.
C2_FoundIsLearned ==
    \A c \in Callers :
        Returned(c) /\ caller[c].result = ARP_RESOLVE_FOUND
        => /\ caller[c].ha # ETHERNET_ADDR_ANY
           /\ OwnerOf(caller[c].ha) = caller[c].pa

(* -------------------------------- C3 ----------------------------------- *)
\* caller c runs arp_resolve in this step without blocking, and returns
ResolveReturns(c) == caller[c].pc = "idle" /\ caller'[c].pc = "done"

\* C3: arp_resolve for a protocol address with no used entry, without a
\* payload, while a slot is free, returns ARP_RESOLVE_QUERY and leaves
\* exactly one used entry with that address, its ha all-zero and its pending
\* payload NULL with length 0, whatever the chosen slot held before.
C3_ColdResolve ==
    [][ \A c \in Callers :
          /\ ResolveReturns(c)
          /\ caller'[c].data = NULL
          /\ UsedFor(arp_table, caller'[c].pa) = {}
          /\ \E i \in Slots : ~arp_table[i].used
          => /\ caller'[c].result = ARP_RESOLVE_QUERY
             /\ Cardinality(UsedFor(arp_table', caller'[c].pa)) = 1
             /\ \A i \in UsedFor(arp_table', caller'[c].pa) :
                  /\ arp_table'[i].ha = ETHERNET_ADDR_ANY
                  /\ arp_table'[i].data = NULL
                  /\ arp_table'[i].len = 0 ]_vars

\* a cold resolve without payload has returned QUERY for a slot on which the
\* other caller still waits from the slot's earlier life, after the sweep or
\* a timeout cleared it
C3_Witness ==
    \E c \in Callers, o \in Callers :
        /\ c # o
        /\ Returned(c) /\ ~caller[c].waited
        /\ caller[c].result = ARP_RESOLVE_QUERY
        /\ caller[c].data = NULL
        /\ arp_table[caller[c].entry].used
        /\ arp_table[caller[c].entry].pa = caller[c].pa
        /\ caller[o].pc = "woken"
        /\ caller[o].entry = caller[c].entry

(* -------------------------------- C4 ----------------------------------- *)
\* C4: with every slot used, arp_resolve for a protocol address that has no
\* entry returns ARP_RESOLVE_ERROR, hands no frame to the device and leaves
\* the cache as it was.
C4_TableFull ==
    [][ \A c \in Callers :
          /\ ResolveReturns(c)
          /\ UsedFor(arp_table, caller'[c].pa) = {}
          /\ \A i \in Slots : arp_table[i].used
          => /\ caller'[c].result = ARP_RESOLVE_ERROR
             /\ caller'[c].sent = <<>>
             /\ arp_table' = arp_table ]_vars

\* a resolve has returned ERROR without waiting while every slot is used by
\* other addresses
C4_Witness ==
    \E c \in Callers :
        /\ Returned(c) /\ ~caller[c].waited
        /\ caller[c].result = ARP_RESOLVE_ERROR
        /\ caller[c].sent = <<>>
        /\ UsedFor(arp_table, caller[c].pa) = {}
        /\ \A i \in Slots : arp_table[i].used

(* -------------------------------- C5 ----------------------------------- *)
\* the receive thread of device d is handed a valid message in this step and
\* runs the sweep and the update
RxProcesses(d) ==
    rx[d].pc = "idle" /\ rx'[d].pc # "idle" /\ rx'[d].locks >= 1

\* C5: when arp_rx processes a valid message whose spa is the address of a
\* used entry that holds a payload (and that this call's sweep does not
\* expire), exactly one IPv4 frame is handed to the device of the netif
\* recorded in the entry, carrying that payload to the message's sha, and
\* the entry's payload is NULL with length 0 afterwards, so that no later
\* message sends it again.
C5_PendingPayloadSent ==
    [][ \A d \in Devs, i \in Slots :
          /\ RxProcesses(d)
          /\ arp_table[i].used
          /\ arp_table[i].pa = rx'[d].msg.spa
          /\ arp_table[i].data # NULL
          /\ ~Expiring(i)
          => LET ip == SelectSeq(rx'[d].sent, IsIp) IN
             /\ Len(ip) = 1
             /\ ip[1].data = arp_table[i].data
             /\ ip[1].len = arp_table[i].len
             /\ ip[1].dst = rx'[d].msg.sha
             /\ ip[1].dev = NetifDev(arp_table[i].netif)
             /\ arp_table'[i].data = NULL
             /\ arp_table'[i].len = 0 ]_vars

(* -------------------------------- C6 ----------------------------------- *)
\* C6: when the device's tx fails while arp_resolve sends its request,
\* arp_resolve returns a non-zero code.
C6_TxFailedNonZero ==
    \A c \in Callers :
        Returned(c) /\ caller[c].txfail => caller[c].result # 0

(* -------------------------------- C7 ----------------------------------- *)
\* caller c comes back from pthread_cond_timedwait in this step and returns
WaitReturns(c) == caller[c].pc = "woken" /\ caller'[c].pc = "done"

\* C7: a call of arp_resolve that took the wait path and comes back from the
\* wait with the entry still the unresolved entry of its address (no ARP
\* message for the address was merged) returns ARP_RESOLVE_ERROR and leaves
\* no used entry for the address, so that the next arp_resolve for it
\* creates the entry and returns ARP_RESOLVE_QUERY again.
C7_TimeoutScenario ==
    [][ \A c \in Callers :
          /\ WaitReturns(c)
          /\ arp_table[caller[c].entry].used
          /\ arp_table[caller[c].entry].pa = caller[c].pa
          /\ arp_table[caller[c].entry].ha = ETHERNET_ADDR_ANY
          => /\ caller'[c].result = ARP_RESOLVE_ERROR
             /\ UsedFor(arp_table', caller[c].pa) = {} ]_vars

(* -------------------------------- C8 ----------------------------------- *)
\* the call of arp_rx on device d has processed a valid message and returned
RxReturned(d) == rx[d].pc = "done" /\ rx[d].locks >= 1
\* device d has an IPv4 interface and m's target is its unicast address
TargetsUs(d, m) == d = NetifDev(Netif1) /\ m.tpa = LocalPA

\* C8: when arp_rx returns from a valid message on device D whose tpa is the
\* unicast address of D's interface, the cache holds a used entry mapping
\* the message's spa to its sha (merged, or inserted unless no slot was
\* free); for a REQUEST exactly one ARP frame was handed to D, a REPLY to the
\* request's sha with sha = D's address, spa = the local unicast and tpa =
\* the request's spa; for a REPLY no ARP frame was handed to any device.
C8_MessageForUs ==
    \A d \in Devs :
        RxReturned(d) /\ TargetsUs(d, rx[d].msg)
        => LET m == rx[d].msg
               arps == SelectSeq(rx[d].sent, IsArp)
           IN /\ \/ \E i \in UsedFor(arp_table, m.spa) :
                        arp_table[i].ha = m.sha
                 \/ rx[d].merge = 0 /\ \A i \in Slots : arp_table[i].used
              /\ IF ntoh16(m.op) = ARP_OP_REQUEST
                 THEN /\ Len(arps) = 1
                      /\ arps[1].dev = d
                      /\ arps[1].dst = m.sha
                      /\ ntoh16(arps[1].arp.op) = ARP_OP_REPLY
                      /\ arps[1].arp.sha = DevAddr(d)
                      /\ arps[1].arp.spa = LocalPA
                      /\ arps[1].arp.tpa = m.spa
                 ELSE arps = <<>>

\* a REQUEST for this machine was merged into an entry that held a payload:
\* the payload and then the reply went out
C8_Witness ==
    \E d \in Devs :
        /\ RxReturned(d) /\ TargetsUs(d, rx[d].msg)
        /\ ntoh16(rx[d].msg.op) = ARP_OP_REQUEST
        /\ rx[d].merge = 1
        /\ Len(rx[d].sent) = 2
        /\ IsIp(rx[d].sent[1]) /\ IsArp(rx[d].sent[2])

C10_MalformedDropped ==
    [][ \A d \in Devs :
          /\ rx[d].pc = "idle" /\ rx'[d].pc # "idle"
          /\ rx'[d].msg \in MalformedFrames
          => /\ rx'[d].pc = "done"
             /\ rx'[d].locks = 0
             /\ rx'[d].sent = <<>>
             /\ arp_table' = arp_table
             /\ timestamp' = timestamp
             /\ caller' = caller ]_vars

\* a malformed frame was dropped while the sweep was due and an entry had
\* expired: the entry is still there
C10_Witness ==
    \E d \in Devs, i \in Slots :
        /\ rx[d].pc = "done"
        /\ rx[d].msg \in MalformedFrames
        /\ rx[d].locks = 0
        /\ Expiring(i)

(* -------------------------------- C11 ---------------------------------- *)
\* the time of the sweep before the k-th one, or of arp_init
SweepBefore(k) == IF k = 1 THEN StartTime ELSE sweeps[k - 1]

\* C11: whatever the sequence and interleaving of arp_rx calls on the
\* receive threads, every execution of arp_table_patrol is more than 10
\* seconds after the one before it, and the first is more than 10 seconds
\* after arp_init.
C11_SweepBounded ==
    \A k \in 1 .. Len(sweeps) :
        sweeps[k] - SweepBefore(k) > SWEEP_INTERVAL_SEC

\* two sweeps have run, and a receive thread has just processed a message
\* within 10 seconds of the second without sweeping
C11_Witness ==
    /\ Len(sweeps) = 2
    /\ clock > sweeps[2]
    /\ clock - sweeps[2] <= SWEEP_INTERVAL_SEC
    /\ \E d \in Devs : rx[d].pc = "done" /\ rx[d].locks >= 1

(* -------------------------------- C12 ---------------------------------- *)
\* slot i holds an entry whose timestamp is more than 300 seconds in the past
Stale(i) ==
    /\ arp_table[i].used
    /\ clock - arp_table[i].timestamp > ARP_TABLE_TIMEOUT_SEC

\* C12 as stated: if a used entry's timestamp is more than 300 seconds in
\* the past when a valid ARP frame is delivered to arp_rx, the entry's used
\* flag is false when that call returns.  (Stated for the calls that return
\* after their first critical section.)
C12_SweepExpiryAsStated ==
    [][ \A d \in Devs, i \in Slots :
          RxProcesses(d) /\ rx'[d].pc = "done" /\ Stale(i)
          => ~arp_table'[i].used ]_vars

\* C12, amended: if a used entry's timestamp is more than 300 seconds in the
\* past when a valid ARP frame is delivered to arp_rx and the last sweep (or
\* arp_init) is more than 10 seconds in the past, the entry's used flag is
\* false when the call releases the mutex after its sweep and update.
C12_SweepExpiry ==
    [][ \A d \in Devs, i \in Slots :
          RxProcesses(d) /\ Stale(i) /\ SweepDue
          => ~arp_table'[i].used ]_vars

\* a call of arp_rx has just swept: slot 0, filled before slot 1, is free
\* again while the younger entry in slot 1 is kept
C12_Witness ==
    /\ \E d \in Devs : rx[d].pc = "done" /\ rx[d].locks = 1
    /\ sweeps # <<>>
    /\ sweeps[Len(sweeps)] = clock
    /\ ~arp_table[0].used
    /\ arp_table[1].used
    /\ arp_table[1].timestamp < clock

(* -------------------------------- C13 ---------------------------------- *)
\* C13: in every state with the cache mutex released, every slot that is
\* not used has a NULL pending payload of length 0 and a NULL netif, after
\* any sequence of arp_resolve (with its table-full, allocation-failure and
\* timeout exits), arp_rx and sweeps.
C13_NoZombiePayloads ==
    \A i \in Slots :
        ~arp_table[i].used
        => /\ arp_table[i].data = NULL
           /\ arp_table[i].len = 0
           /\ arp_table[i].netif = NULL

\* a resolver whose wait timed out has cleared the entry it waited on, which
\* an earlier call created with its netif, and returned ERROR
C13_Witness ==
    \E c \in Callers :
        /\ Returned(c)
        /\ caller[c].waited
        /\ caller[c].ret = ETIMEDOUT
        /\ caller[c].result = ARP_RESOLVE_ERROR
        /\ ~arp_table[caller[c].entry].used

(* -------------------------------- C14 ---------------------------------- *)
\* the slots whose condition variable the receive thread of device d
\* broadcasts in this step: those of the sweep and the update of a call that
\* starts, or that of the insert
Signalled(d) ==
    IF RxProcesses(d)
    THEN arp_rx_locked(arp_table, timestamp, d, rx'[d].msg, clock).bcast
    ELSE IF rx[d].pc = "insert" /\ rx'[d].pc = "done"
    THEN arp_table_insert(arp_table, rx[d].msg.spa, rx[d].msg.sha,
                          clock).bcast
    ELSE {}

\* C14: every broadcast on an entry's condition variable (in
\* arp_table_insert, arp_table_update and arp_table_patrol) is issued in a
\* critical section of the cache mutex, and leaves the entry in a state a
\* waiter can tell from the one it waited in: its ha non-zero, or its used
\* flag false.
C14_WaiterLiveness ==
    [][ \A d \in Devs : \A i \in Signalled(d) :
          /\ rx'[d].locks = rx[d].locks + 1
          /\ \/ ~arp_table'[i].used
             \/ arp_table'[i].ha # ETHERNET_ADDR_ANY ]_vars

(* -------------------------------- C15 ---------------------------------- *)
\* caller c's call of arp_resolve runs one of its critical sections in this
\* step: from the lock to the wait or the return, or from the wake-up to the
\* return
ResolveStep(c) ==
    caller[c].pc \in {"idle", "woken"} /\ caller'[c].pc # caller[c].pc
\* the pending payload of slot i is the same before and after the step
PayloadKept(i) ==
    /\ arp_table'[i].data = arp_table[i].data
    /\ arp_table'[i].len = arp_table[i].len

\* C15 as stated: arp_resolve stores the caller's payload only in a call
\* that returns QUERY; a call that returns FOUND or ERROR, and every call
\* that takes the wait path, leaves the pending payload of every entry
\* exactly as it was.
C15_PayloadOwnershipAsStated ==
    [][ \A c \in Callers, i \in Slots :
          ResolveStep(c)
          => \/ PayloadKept(i)
             \/ /\ caller[c].pc = "idle"
                /\ caller'[c].pc = "done"
                /\ caller'[c].result = ARP_RESOLVE_QUERY ]_vars

\* C15, amended: arp_resolve stores the caller's payload only in the call
\* that creates the entry and returns QUERY, in a slot that was unused and
\* held none; every other call leaves the pending payload of every entry as
\* it was, except that the ERROR exit of the wait path clears the entry it
\* waited on and with it drops that entry's payload.
C15_PayloadOwnership ==
    [][ \A c \in Callers, i \in Slots :
          ResolveStep(c)
          => \/ PayloadKept(i)
             \/ /\ caller[c].pc = "idle"
                /\ caller'[c].pc = "done"
                /\ caller'[c].result = ARP_RESOLVE_QUERY
                /\ i = caller'[c].entry
                /\ ~arp_table[i].used
                /\ arp_table[i].data = NULL
                /\ arp_table'[i].data = caller'[c].data
             \/ /\ caller[c].pc = "woken"
                /\ caller'[c].result = ARP_RESOLVE_ERROR
                /\ i = caller[c].entry
                /\ ~arp_table'[i].used
                /\ arp_table'[i].data = NULL ]_vars

\* a caller has taken the wait path on an unresolved entry of its address
\* that holds the payload attached at its creation
C15_Witness ==
    \E c \in Callers :
        /\ caller[c].pc = "waiting"
        /\ arp_table[caller[c].entry].used
        /\ arp_table[caller[c].entry].pa = caller[c].pa
        /\ arp_table[caller[c].entry].ha = ETHERNET_ADDR_ANY
        /\ arp_table[caller[c].entry].data # NULL

(* -------------------------------- C16 ---------------------------------- *)
\* C16: every call of arp_resolve and every call of arp_rx eventually
\* returns, whatever the interleaving of caller and receive threads, also
\* when no reply and no signal ever arrives: a resolver's wait ends at its
\* deadline at the latest.  (No thread stays inside a call for ever: each
\* is outside arp_resolve, or arp_rx, again and again.)
C16_Termination ==
    /\ \A c \in Callers : []<>(caller[c].pc = "idle")
    /\ \A d \in Devs : []<>(rx[d].pc = "idle")

\* a resolver's wait has ended with ETIMEDOUT while the entry it waited on
\* is still unresolved: nothing but the deadline ended the wait
C16_Witness ==
    \E c \in Callers :
        /\ caller[c].pc = "woken"
        /\ caller[c].ret = ETIMEDOUT
        /\ arp_table[caller[c].entry].used
        /\ arp_table[caller[c].entry].ha = ETHERNET_ADDR_ANY

(* -------------------------------- C17 ---------------------------------- *)
\* C17: whenever an entry goes from used to not used, by the sweep or by a
\* resolver whose wait timed out, its condition variable is broadcast in the
\* same critical section: every thread waiting on that entry is woken.
C17_ClearSignals ==
    [][ \A i \in Slots :
          arp_table[i].used /\ ~arp_table'[i].used
          => \A c \in Callers :
                caller[c].pc = "waiting" /\ caller[c].entry = i
                => caller'[c].pc = "woken" ]_vars

(* -------------------------------- C18 ---------------------------------- *)
\* C18: a waiter that re-acquires the mutex and finds its entry resolved
\* (still the used entry of its address, ha set to a non-zero address by
\* arp_rx) does not clear it and returns ARP_RESOLVE_FOUND with that
\* address, whether or not its deadline has passed.
C18_ReplyBeatsTimeout ==
    [][ \A c \in Callers :
          /\ WaitReturns(c)
          /\ arp_table[caller[c].entry].used
          /\ arp_table[caller[c].entry].pa = caller[c].pa
          /\ arp_table[caller[c].entry].ha # ETHERNET_ADDR_ANY
          => /\ caller'[c].result = ARP_RESOLVE_FOUND
             /\ caller'[c].ha = arp_table[caller[c].entry].ha
             /\ arp_table' = arp_table ]_vars

(* -------------------------------- C19 ---------------------------------- *)
\* the entry in slot i is unresolved before this step and resolved after it
Resolves(i) ==
    /\ arp_table[i].used /\ arp_table[i].ha = ETHERNET_ADDR_ANY
    /\ arp_table'[i].used /\ arp_table'[i].pa = arp_table[i].pa
    /\ arp_table'[i].ha # ETHERNET_ADDR_ANY

C20_SpuriousWakeupTolerated ==
    [][ \A c \in Callers :
          /\ caller[c].pc = "woken"
          /\ caller'[c].pc # "woken"
          /\ caller[c].ret = 0
          /\ arp_table[caller[c].entry].used
          /\ arp_table[caller[c].entry].pa = caller[c].pa
          /\ arp_table[caller[c].entry].ha = ETHERNET_ADDR_ANY
          => /\ caller'[c].pc = "waiting"
             /\ caller'[c].entry = caller[c].entry ]_vars

====
